---- MODULE Spec2Model ----
(***************************************************************************)
(* The Naviary runtime memory manager: the mark-and-sweep collector of     *)
(* runtime/src/garbage_collector.rs, the typed arrays of                   *)
(* runtime/src/object.rs and the C entry points of runtime/src/lib.rs.     *)
(*                                                                         *)
(* Pointers are byte addresses.  The heap is a map from block addresses to *)
(* the object stored there; the system allocator may hand any free block   *)
(* to an allocation, so addresses of freed objects are reused.             *)
(* usize counters are kept as the representative of their value modulo     *)
(* 2^64 that lies nearest to zero: a negative representative r stands for  *)
(* the wrapped value 2^64 + r.                                             *)
(*                                                                         *)
(* The compiler front end: the type checker of src/typechecker/mod.rs and  *)
(* the lowering of compiler/src/codegen/mod.rs work through one function   *)
(* body statement by statement; the lowered for loop is then executed.     *)
(***************************************************************************)
EXTENDS Integers, Sequences, FiniteSets, TLC

\* ---- bounds of the model ------------------------------------------------
MaxObjects == 2
MaxIndex == 1
MaxCapacity == 2
MaxResizes == 1

\* addresses of the blocks the allocator can return (every object is at
\* least 40 bytes, so no block starts HEADER_SIZE bytes after another)
BlockStride == 64
Addr == {BlockStride * i : i \in 1..MaxObjects}
NULL == 0
Ptr == Addr \cup {NULL}

\* inputs of the entry points
TextLens == {1000}
AllocCapacities == {0, 2}
ResizeCapacities == {1}
PrimValues == {7}
Zero == 0
Uninit == -1

\* ---- object layout (64-bit target) --------------------------------------
HEADER_SIZE == 32
STRING_OBJECT_SIZE == 40
ARRAY_OBJECT_SIZE == 56
INITIAL_THRESHOLD == 1048576
MIN_THRESHOLD == 1024

ObjectType == {"String", "IntArray", "FloatArray", "BoolArray", "StringArray"}
ArrayType == {"IntArray", "FloatArray", "BoolArray", "StringArray"}

\* mem::size_of of the element type of each array kind
ElementSize(t) == IF t = "BoolArray" THEN 1 ELSE 8

\* a block that holds no object
FreeBlock ==
    [is_marked |-> FALSE, next_object |-> NULL, object_size |-> 0,
     object_type |-> "Free", length |-> 0, capacity |-> 0, elements |-> <<>>]

VARIABLES
    heap,                          \* Addr -> the object in that block
    first_object,                  \* head of the all-objects list
    total_bytes_allocated,
    garbage_collection_threshold,
    root_objects,                  \* Vec<*mut ObjectHeader>
    overflow_checks,               \* "off" once an overflow has wrapped
    resizes,                       \* element buffers reallocated so far
    aborted,                       \* the process has panicked or crashed
    last_op,                       \* the call that produced this state
    program,                       \* the function being compiled
    type_checker,                  \* TypeChecker, while it checks a function
    code_generator,                \* CodeGenerator, while it lowers the same
    loop                           \* the lowered for loop being executed

runtime_vars == <<heap, first_object, total_bytes_allocated,
                  garbage_collection_threshold, root_objects, overflow_checks,
                  resizes, aborted, last_op>>
compiler_vars == <<program, type_checker, code_generator, loop>>
vars == <<runtime_vars, compiler_vars>>

\* no compiler runs beside the runtime, no loop beside the compiler
Idle == [result |-> "idle"]

Allocated(h) == {a \in Addr : h[a].object_type # "Free"}

\* ---- usize arithmetic ---------------------------------------------------
\* unsigned order on representatives
ULess(x, y) == IF (x < 0) = (y < 0) THEN x < y ELSE y < 0
UMax(x, y) == IF ULess(x, y) THEN y ELSE x
\* a - b underflows (b is a small size)
SubUnderflows(a, b) == a >= 0 /\ a < b
\* a + b overflows (b is a small size)
AddOverflows(a, b) == a < 0 /\ a + b >= 0

Range(s) == {s[i] : i \in 1..Len(s)}

\* what last_op records: of a call that returned, its kind and its result;
\* of the call that ended the process, its name and how it ended
\* and the number of objects a collection run by the call has freed
Op(kind, name, freed) == [kind |-> kind, freed |-> freed, op |-> name]
Returned(op) == [result |-> "ok", freed |-> op.freed, op |-> op.kind]
Ended(op, how) == [result |-> how, freed |-> 0, op |-> op.op]

\* ---- garbage_collector.rs ----------------------------------------------
\* the collector's fields, as one value; overflowed records that a usize
\* operation left the range (a panic when the build checks overflow)
GC ==
    [heap |-> heap, first_object |-> first_object,
     total_bytes_allocated |-> total_bytes_allocated,
     garbage_collection_threshold |-> garbage_collection_threshold,
     root_objects |-> root_objects, overflowed |-> FALSE, events |-> <<>>]

\* an access of the sweep to a block: a read or a write of a header field,
\* or the dealloc of the object block or of an array's element buffer (named
\* by the array that owns it)
Touch(op, block, field) == [op |-> op, block |-> block, field |-> field]

\* add_root without the `contains` test
add_root_unchecked(roots, data_ptr) ==
    IF data_ptr = NULL THEN roots ELSE Append(roots, data_ptr)

add_root(roots, data_ptr) ==
    IF data_ptr = NULL THEN roots
    ELSE IF data_ptr \in Range(roots) THEN roots
    ELSE Append(roots, data_ptr)

remove_root(roots, data_ptr) ==
    IF data_ptr = NULL THEN roots
    ELSE LET header_ptr == data_ptr - HEADER_SIZE
         IN  SelectSeq(roots, LAMBDA root : root # header_ptr)

RECURSIVE mark_object(_, _)
RECURSIVE mark_elements(_, _, _)
\* reading the header of a block that was freed is undefined; here the read
\* finds nothing to do (the other outcome, a crash, is CollectMayCrash)
mark_object(h, object) ==
    IF object = NULL THEN h
    ELSE IF object \notin Allocated(h) THEN h
    ELSE IF h[object].is_marked THEN h
    ELSE LET h1 == [h EXCEPT ![object].is_marked = TRUE]
         IN  IF h1[object].object_type = "StringArray"
             THEN mark_elements(h1, object, 0)
             ELSE h1
\* the element scan running over the whole buffer instead of [0, length)
RECURSIVE mark_elements_to_capacity(_, _, _)
mark_elements_to_capacity(h, array, i) ==
    IF i >= Len(h[array].elements) THEN h
    ELSE LET element == h[array].elements[i + 1]
         IN  mark_elements_to_capacity(
                 IF element # NULL THEN mark_object(h, element) ELSE h,
                 array, i + 1)
mark_elements(h, array, i) ==
    IF i >= h[array].length THEN h
    ELSE LET element == h[array].elements[i + 1]
         IN  mark_elements(IF element # NULL THEN mark_object(h, element) ELSE h,
                           array, i + 1)

RECURSIVE mark_roots(_, _, _)
mark_roots(h, roots, i) ==
    IF i > Len(roots) THEN h
    ELSE mark_roots(mark_object(h, roots[i]), roots, i + 1)

mark(gc) == [gc EXCEPT !.heap = mark_roots(gc.heap, gc.root_objects, 1)]

free_array_elements(gc, elements, capacity, element_size) ==
    IF capacity > 0
    THEN LET size == capacity * element_size
         IN  [gc EXCEPT
                !.events = Append(@, Touch("dealloc", elements, "buffer")),
                !.overflowed = @ \/ SubUnderflows(gc.total_bytes_allocated, size),
                !.total_bytes_allocated = @ - size]
    ELSE gc

\* free_object releasing the object block before the element buffer
free_object_block_first(gc, object) ==
    LET o == gc.heap[object]
        object_size == o.object_size
        gc0 == [gc EXCEPT
                  !.events = @ \o <<Touch("read", object, "header"),
                                    Touch("dealloc", object, "block")>>,
                  !.heap[object] = FreeBlock,
                  !.overflowed = @ \/ SubUnderflows(gc.total_bytes_allocated,
                                                    object_size),
                  !.total_bytes_allocated = @ - object_size]
    IN  IF o.object_type \in ArrayType
        THEN free_array_elements(gc0, object, o.capacity,
                                 ElementSize(o.object_type))
        ELSE gc0

free_object(gc, object) ==
    LET o == gc.heap[object]
        object_size == o.object_size
        gc0 == [gc EXCEPT !.events = Append(@, Touch("read", object, "header"))]
        gc1 == IF o.object_type \in ArrayType
               THEN free_array_elements(gc0, object, o.capacity,
                                        ElementSize(o.object_type))
               ELSE gc0
    IN  [gc1 EXCEPT
           !.events = Append(@, Touch("dealloc", object, "block")),
           !.heap[object] = FreeBlock,
           !.overflowed = @ \/ SubUnderflows(gc1.total_bytes_allocated, object_size),
           !.total_bytes_allocated = @ - object_size]

\* sweep keeping the mark of a survivor
keep_mark(gc, current) == gc

\* `(*current).is_marked = false`
clear_mark(gc, current) ==
    [gc EXCEPT !.events = Append(@, Touch("write", current, "is_marked")),
               !.heap[current].is_marked = FALSE]

RECURSIVE sweep_loop(_, _, _)
sweep_loop(gc, previous, current) ==
    IF current = NULL THEN gc
    ELSE LET next == gc.heap[current].next_object
             gc0 == [gc EXCEPT
                       !.events = @ \o <<Touch("read", current, "next_object"),
                                         Touch("read", current, "is_marked")>>]
         IN  IF gc.heap[current].is_marked
             THEN sweep_loop(clear_mark(gc0, current), current, next)
             ELSE LET gc1 == free_object(gc0, current)
                      gc2 == IF previous = NULL
                             THEN [gc1 EXCEPT !.first_object = next]
                             ELSE [gc1 EXCEPT
                                     !.events = Append(@, Touch("write", previous,
                                                                "next_object")),
                                     !.heap[previous].next_object = next]
                  IN  sweep_loop(gc2, previous, next)

sweep(gc) == sweep_loop([gc EXCEPT !.events = <<>>], NULL, gc.first_object)

\* mark and sweep that leave the threshold as it was
collect_keeping_threshold(gc) == sweep(mark(gc))

collect(gc) ==
    LET swept == sweep(mark(gc))
    IN  [swept EXCEPT
           !.overflowed = @ \/ swept.total_bytes_allocated < 0,
           !.garbage_collection_threshold =
               UMax(swept.total_bytes_allocated * 2, MIN_THRESHOLD)]

should_collect(gc, size) ==
    ~ULess(gc.total_bytes_allocated + size, gc.garbage_collection_threshold)

\* an allocation that never runs the collector
gc_check_skipped(gc, size) == gc

\* the GC check at the head of allocate_string and allocate_array
gc_check(gc, size) ==
    IF should_collect(gc, size)
    THEN collect([gc EXCEPT
                    !.overflowed = @ \/ AddOverflows(gc.total_bytes_allocated, size)])
    ELSE gc

\* register_object without `(*object).next_object = self.first_object`
register_object_unlinked(gc, object) == [gc EXCEPT !.first_object = object]

register_object(gc, object) ==
    [gc EXCEPT !.heap[object].next_object = gc.first_object,
               !.first_object = object]

\* ptr is the block the system allocator returns
allocate_string(gc, text_len, ptr) ==
    LET object_size == STRING_OBJECT_SIZE
        size == object_size + text_len
        gc1 == gc_check(gc, size)
        gc2 == [gc1 EXCEPT !.heap[ptr] =
                   [is_marked |-> FALSE, next_object |-> gc1.first_object,
                    object_size |-> size, object_type |-> "String",
                    length |-> text_len, capacity |-> 0, elements |-> <<>>]]
        gc3 == register_object(gc2, ptr)
    IN  [gc3 EXCEPT
           !.overflowed = @ \/ AddOverflows(gc3.total_bytes_allocated, size),
           !.total_bytes_allocated = @ + size]

allocate_array(gc, capacity, object_type, array_ptr) ==
    LET array_size == ARRAY_OBJECT_SIZE
        element_size == ElementSize(object_type)
        elements_size == capacity * element_size
        total_size == array_size + elements_size
        gc1 == gc_check(gc, total_size)
        gc2 == [gc1 EXCEPT !.heap[array_ptr] =
                   [is_marked |-> FALSE, next_object |-> NULL,
                    object_size |-> array_size, object_type |-> object_type,
                    length |-> 0, capacity |-> capacity,
                    elements |-> [i \in 1..capacity |-> Zero]]]
        gc3 == register_object(gc2, array_ptr)
    IN  [gc3 EXCEPT
           !.overflowed = @ \/ AddOverflows(gc3.total_bytes_allocated, total_size),
           !.total_bytes_allocated = @ + total_size]

\* ---- object.rs: the typed arrays ----------------------------------------
\* `*self.elements.add(index) = value`.  elements lists the buffer's cells
\* and, after them, the cells behind the buffer that a store or a raised
\* length has exposed; fill is what those cells held when first exposed.
Store(elements, index, value, fill) ==
    LET n == IF index + 1 > Len(elements) THEN index + 1 ELSE Len(elements)
    IN  [i \in 1..n |-> IF i = index + 1 THEN value
                        ELSE IF i <= Len(elements) THEN elements[i]
                        ELSE fill[i - 1]]

\* the cells behind the buffer that a store at index exposes
Exposed(self, index) == Len(self.elements)..(index - 1)

get(self, index) ==
    IF index >= self.length
    THEN [result |-> "panic", value |-> 0]
    ELSE [result |-> "ok", value |-> self.elements[index + 1]]

\* set without the bounds check
set_unchecked(self, index, value, fill) ==
    [result |-> "ok",
     self |-> [self EXCEPT !.elements = Store(@, index, value, fill)]]

set(self, index, value, fill) ==
    IF index >= self.length
    THEN [result |-> "panic", self |-> self]
    ELSE [result |-> "ok",
          self |-> [self EXCEPT !.elements = Store(@, index, value, fill)]]

\* the cells of a buffer that resize has not written
FreshCell(t) == IF t = "StringArray" THEN NULL ELSE Uninit

resize(self, new_capacity) ==
    LET t == self.object_type
        refused == IF t = "StringArray"
                   THEN new_capacity < self.length
                   ELSE new_capacity < self.capacity
        kept == IF new_capacity < self.capacity THEN new_capacity ELSE self.capacity
        cells == IF new_capacity > self.length THEN new_capacity ELSE self.length
    IN  IF refused THEN [result |-> "panic", self |-> self]
        ELSE IF new_capacity = self.capacity THEN [result |-> "ok", self |-> self]
        ELSE [result |-> "ok",
              self |-> [self EXCEPT
                          !.elements = [i \in 1..cells |->
                              IF i <= kept THEN self.elements[i]
                              ELSE IF i <= new_capacity THEN FreshCell(t)
                              ELSE Uninit],
                          !.capacity = new_capacity]]

\* growth that doubles whatever the capacity is
grow_doubling(self) == resize(self, self.capacity * 2)

grow(self) ==
    LET new_capacity == IF self.capacity = 0 THEN 4
                        ELSE IF self.capacity < 1024 THEN self.capacity * 2
                        ELSE self.capacity + (self.capacity \div 2)
    IN  resize(self, new_capacity)

push(self, value, fill) ==
    LET grown == IF self.length + 1 >= self.capacity
                 THEN grow(self)
                 ELSE [result |-> "ok", self |-> self]
        s1 == grown.self
    IN  IF grown.result = "panic" THEN grown
        ELSE [result |-> "ok",
              self |-> [s1 EXCEPT
                          !.elements = Store(@, s1.length, value, fill),
                          !.length = @ + 1]]

pop(self) ==
    IF self.length = 0
    THEN [result |-> "none", value |-> 0, self |-> self]
    ELSE [result |-> "some",
          value |-> self.elements[self.length],
          self |-> [self EXCEPT !.length = @ - 1]]

\* ---- lib.rs: the C entry points -----------------------------------------
naviary_array_set(self, index, value, fill) ==
    LET raised == IF index >= self.length
                  THEN [self EXCEPT !.length = index + 1]
                  ELSE self
    IN  set(raised, index, value, fill)

\* ---- reachability, as the mark phase is specified ------------------------
\* the pointers held in slots [0, length) of the string array at a
Slots(h, a) ==
    IF h[a].object_type = "StringArray"
    THEN {h[a].elements[i] : i \in 1..h[a].length} \ {NULL}
    ELSE {}

RECURSIVE Closure(_, _)
Closure(h, S) ==
    LET T == S \cup UNION {Slots(h, a) : a \in S}
    IN  IF T = S THEN S ELSE Closure(h, T)

Reachable(h, roots) == Closure(h, Range(roots) \ {NULL})

\* the mark phase would read the header of a freed block
CollectMayCrash(gc) == ~(Reachable(gc.heap, gc.root_objects) \subseteq Allocated(gc.heap))

InitRuntime ==
    /\ heap = [a \in Addr |-> FreeBlock]
    /\ first_object = NULL
    /\ total_bytes_allocated = 0
    /\ garbage_collection_threshold = INITIAL_THRESHOLD
    /\ root_objects = <<>>
    /\ overflow_checks = "either"
    /\ resizes = 0
    /\ aborted = FALSE
    /\ last_op = Returned(Op("new", "new", 0))

Init ==
    /\ InitRuntime
    /\ program = Idle
    /\ type_checker = Idle
    /\ code_generator = Idle
    /\ loop = Idle

\* ---- the operations ------------------------------------------------------
Arrays == {a \in Addr : heap[a].object_type \in ArrayType}
Strings == {a \in Addr : heap[a].object_type = "String"}

\* the values a caller stores into the array at a
ElementValues(a) ==
    IF heap[a].object_type = "StringArray" THEN Strings \cup {NULL} ELSE PrimValues
\* what the memory behind the buffer of a may hold
FillValues(a) ==
    IF heap[a].object_type = "StringArray" THEN Ptr ELSE {Uninit}

\* the bytes of the objects on the heap and of their element buffers
RECURSIVE SumBytes(_, _)
SumBytes(h, S) ==
    IF S = {} THEN 0
    ELSE LET a == CHOOSE x \in S : TRUE
         IN  h[a].object_size + h[a].capacity * ElementSize(h[a].object_type)
             + SumBytes(h, S \ {a})
LiveBytes(h) == SumBytes(h, Allocated(h))
\* the objects of h that are gone in h2
Freed(h, h2) == Cardinality(Allocated(h) \ Allocated(h2))

Install(gc, op) ==
    /\ heap' = gc.heap
    /\ first_object' = gc.first_object
    /\ total_bytes_allocated' = gc.total_bytes_allocated
    /\ garbage_collection_threshold' = gc.garbage_collection_threshold
    /\ root_objects' = gc.root_objects
    /\ last_op' = Returned(op)
    /\ UNCHANGED aborted
    /\ UNCHANGED compiler_vars

\* the process ends, and its memory with it
Abort(op) ==
    /\ aborted' = TRUE
    /\ last_op' = op
    /\ resizes' = resizes
    /\ heap' = [a \in Addr |-> FreeBlock]
    /\ first_object' = NULL
    /\ total_bytes_allocated' = 0
    /\ garbage_collection_threshold' = INITIAL_THRESHOLD
    /\ root_objects' = <<>>
    /\ UNCHANGED overflow_checks
    /\ UNCHANGED compiler_vars

\* the call returns with the collector as gc, or the process dies: of an
\* overflow panic, or (may_crash) of an access to memory it does not own
Finish(gc, op, may_crash) ==
    \/ /\ ~gc.overflowed
       /\ Install(gc, op)
       /\ UNCHANGED <<overflow_checks, resizes>>
    \/ /\ gc.overflowed
       /\ Install(gc, op)
       /\ overflow_checks' = "off"
       /\ UNCHANGED resizes
    \/ /\ gc.overflowed /\ overflow_checks # "off"
       /\ Abort(Ended(op, "panic"))
    \/ /\ may_crash
       /\ Abort(Ended(op, "crash"))

\* an array operation returns r.self for the array at a, or panics, or
\* (may_crash) touches a cell behind its buffer: behind a buffer on the heap
\* the access may go through, behind the null buffer of capacity 0 it traps
FinishArray(a, r, op, may_crash) ==
    \/ /\ r.result # "panic"
       /\ ~(may_crash /\ r.self.capacity = 0)
       /\ r.self.capacity # heap[a].capacity => resizes < MaxResizes
       /\ Install([GC EXCEPT !.heap[a] = r.self], op)
       /\ resizes' = IF r.self.capacity # heap[a].capacity
                      THEN resizes + 1 ELSE resizes
       /\ UNCHANGED overflow_checks
    \/ /\ r.result = "panic"
       /\ Abort(Ended(op, "panic"))
    \/ /\ r.result # "panic" /\ may_crash
       /\ Abort(Ended(op, "crash"))

AllocateString ==
    /\ ~aborted
    /\ \E text_len \in TextLens :
         LET size == STRING_OBJECT_SIZE + text_len
         IN  \E ptr \in Addr \ Allocated(gc_check(GC, size).heap) :
                Finish(allocate_string(GC, text_len, ptr),
                       Op("allocate", "allocate_string",
                          Freed(heap, gc_check(GC, size).heap)),
                       should_collect(GC, size) /\ CollectMayCrash(GC))

AllocateArray ==
    /\ ~aborted
    /\ \E object_type \in ArrayType, capacity \in AllocCapacities :
         LET size == ARRAY_OBJECT_SIZE + capacity * ElementSize(object_type)
         IN  \E ptr \in Addr \ Allocated(gc_check(GC, size).heap) :
                Finish(allocate_array(GC, capacity, object_type, ptr),
                       Op("allocate", "allocate_array",
                          Freed(heap, gc_check(GC, size).heap)),
                       should_collect(GC, size) /\ CollectMayCrash(GC))

AddRoot ==
    /\ ~aborted
    /\ UNCHANGED <<overflow_checks, resizes>>
    /\ \E p \in Allocated(heap) \cup {NULL} :
         Install([GC EXCEPT !.root_objects = add_root(@, p)],
                 Op("call", "add_root", 0))

RemoveRoot ==
    /\ ~aborted
    /\ UNCHANGED <<overflow_checks, resizes>>
    /\ \E p \in Allocated(heap) \cup {NULL} :
         Install([GC EXCEPT !.root_objects = remove_root(@, p)],
                 Op("call", "remove_root", 0))

Collect ==
    /\ ~aborted
    /\ Finish(collect(GC),
              Op("collect", "collect", Freed(heap, collect(GC).heap)),
              CollectMayCrash(GC))

ArrayGet ==
    /\ ~aborted
    /\ \E a \in Arrays, index \in 0..MaxIndex :
         LET r == get(heap[a], index)
         IN  FinishArray(a, [result |-> r.result, self |-> heap[a]],
                         Op("call", "get", 0),
                         index >= heap[a].capacity)

ArraySet ==
    /\ ~aborted
    /\ \E a \in Arrays, index \in 0..MaxIndex :
         \E value \in ElementValues(a) :
            FinishArray(a, set(heap[a], index, value, <<>>),
                        Op("call", "set", 0),
                        index >= heap[a].capacity)

NaviaryArraySet ==
    /\ ~aborted
    /\ \E a \in Arrays, index \in 0..MaxIndex :
         \E value \in ElementValues(a) :
            \E fill \in [Exposed(heap[a], index) -> FillValues(a)] :
               FinishArray(a, naviary_array_set(heap[a], index, value, fill),
                           Op("call", "naviary_array_set", 0),
                           index >= heap[a].capacity)

ArrayPush ==
    /\ ~aborted
    /\ \E a \in Arrays :
         /\ heap[a].length + 1 >= heap[a].capacity
               => grow(heap[a]).self.capacity <= MaxCapacity
         /\ \E value \in ElementValues(a) :
              LET at == heap[a].length
                  grown == IF at + 1 >= heap[a].capacity
                           THEN grow(heap[a]).self ELSE heap[a]
              IN  \E fill \in [Exposed(grown, at) -> FillValues(a)] :
                     FinishArray(a, push(heap[a], value, fill),
                                 Op("call", "push", 0),
                                 at >= grown.capacity)

ArrayPop ==
    /\ ~aborted
    /\ \E a \in Arrays :
         LET r == pop(heap[a])
         IN  FinishArray(a, r, Op("call", "pop", 0),
                         heap[a].length > heap[a].capacity)

ArrayResize ==
    /\ ~aborted
    /\ \E a \in Arrays, new_capacity \in ResizeCapacities :
         FinishArray(a, resize(heap[a], new_capacity),
                     Op("call", "resize", 0), FALSE)

Next ==
    \/ AllocateString
    \/ AllocateArray
    \/ AddRoot
    \/ RemoveRoot
    \/ Collect
    \/ ArrayGet
    \/ ArraySet
    \/ NaviaryArraySet
    \/ ArrayPush
    \/ ArrayPop
    \/ ArrayResize

Spec == Init /\ [][Next]_vars

\* ---- the claims ----------------------------------------------------------
CollectReturned == ~aborted /\ last_op.op = "collect" /\ last_op.result = "ok"

\* the all-objects list, walked from first_object through next_object
RECURSIVE Walk(_, _, _)
Walk(h, p, fuel) ==
    IF p = NULL \/ fuel = 0 THEN <<>>
    ELSE <<p>> \o Walk(h, h[p].next_object, fuel - 1)
AllObjects == Walk(heap, first_object, MaxObjects + 1)
NoDuplicates(s) == \A i, j \in 1..Len(s) : s[i] = s[j] => i = j
StringArrays == {a \in Addr : heap[a].object_type = "StringArray"}

\* C1: when collect() returns, no object reachable from the root set (a
\* root, or a non-null element in slots [0, length) of a reachable
\* StringArray) has been freed.
C1_GcSafety ==
    CollectReturned => Reachable(heap, root_objects) \subseteq Allocated(heap)

\* C2: for every non-null p, add_root(p) followed by remove_root(p) leaves a
\* root set without p that holds exactly the other roots it held before, and
\* a following collect() frees the object at p when nothing else reaches it.
C2_RemoveRootByHeader ==
    \A p \in Allocated(heap) :
        LET removed == remove_root(add_root(root_objects, p), p)
            after == collect([GC EXCEPT !.root_objects = removed])
        IN  /\ p \notin Range(removed)
            /\ Range(removed) = Range(root_objects) \ {p}
            /\ p \notin Reachable(heap, removed) => p \notin Allocated(after.heap)

\* C3: after collect() returns, total_bytes_allocated is the sum over the
\* remaining objects of the object's size plus the size of its element
\* buffer (capacity x element size).
C3_ByteAccounting ==
    CollectReturned => total_bytes_allocated = LiveBytes(heap)

\* C4: every array of every element type has 0 <= length <= capacity in
\* every reachable state.
C4_LengthWithinCapacity ==
    \A a \in Arrays : 0 <= heap[a].length /\ heap[a].length <= heap[a].capacity

\* C5: in every reachable state each non-null pointer in slots [0, length)
\* of a StringArray on the all-objects list refers to a String object that
\* is on the all-objects list.
C5_StringElementsLive ==
    \A a \in StringArrays : \A i \in 1..heap[a].length :
        LET element == heap[a].elements[i]
        IN  element # NULL =>
               /\ heap[element].object_type = "String"
               /\ element \in Range(AllObjects)

\* C6: when collect() returns, no object that is unreachable from the root
\* set is left on the all-objects list or on the heap.
C6_GcCompleteness ==
    CollectReturned =>
        Allocated(heap) \cup Range(AllObjects) \subseteq Reachable(heap, root_objects)
\* a collection has freed one object and kept another
C6_Witness ==
    CollectReturned /\ last_op.freed > 0 /\ Allocated(heap) # {}

\* C7: outside a collection every object has mark = false: objects are
\* created unmarked and sweep clears the mark of every object it keeps.
C7_MarksClear == \A a \in Addr : ~heap[a].is_marked
\* a collection has marked and kept a string array together with its element
C7_Witness ==
    /\ CollectReturned
    /\ \E a \in StringArrays : Slots(heap, a) \cap Allocated(heap) # {}

\* C8: the list threaded through next_object from first_object is finite and
\* acyclic and holds every allocated, not yet freed object exactly once and
\* no freed object; allocation prepends the new object at the head and sweep
\* only unlinks the objects it frees.
IsSubSeq(s, t) ==
    \E keep \in SUBSET (1..Len(t)) : s = SelectSeq(t, LAMBDA x : \E i \in keep : t[i] = x)
C8_ListInvariant ==
    /\ Len(AllObjects) <= MaxObjects
    /\ NoDuplicates(AllObjects)
    /\ Range(AllObjects) = Allocated(heap)
C8_ListStep ==
    LET old == AllObjects
        new == AllObjects'
    IN  \/ aborted'
        \/ /\ last_op'.op = "allocate"
           /\ new # <<>>
           /\ Head(new) = first_object'
           /\ Head(new) \notin Allocated(heap) \/ last_op'.freed > 0
           /\ IsSubSeq(Tail(new), old)
           /\ Len(Tail(new)) = Len(old) - last_op'.freed
        \/ /\ last_op'.op = "collect"
           /\ new = SelectSeq(old, LAMBDA x : x \in Allocated(heap'))
           /\ Allocated(heap') \subseteq Allocated(heap)
        \/ /\ last_op'.op = "call"
           /\ new = old
C8_ListIntegrity == [](C8_ListInvariant) /\ [][C8_ListStep]_vars
\* the list holds two objects and a collection has unlinked one of them
C8_Witness ==
    CollectReturned /\ last_op.freed = 1 /\ Len(AllObjects) = 1

\* C9: the root set holds no null pointer and no pointer twice; add_root(p)
\* for a p already present, add_root(null) and remove_root(null) leave it
\* unchanged.
C9_RootSetWellFormed ==
    /\ NULL \notin Range(root_objects)
    /\ NoDuplicates(root_objects)
    /\ \A p \in Range(root_objects) : add_root(root_objects, p) = root_objects
    /\ add_root(root_objects, NULL) = root_objects
    /\ remove_root(root_objects, NULL) = root_objects
\* two roots are registered
C9_Witness == Len(root_objects) = 2 /\ last_op.op = "call"

\* C10: get(i) and set(i, v) with i >= length and pop() on an array of length
\* 0 abort instead of returning; none of them touches a slot outside
\* [0, length).
InputValues == PrimValues \cup Ptr
C10_GetSetFailFast ==
    \A a \in Arrays : \A i \in 0..MaxIndex : \A v \in InputValues :
        LET self == heap[a]
            g == get(self, i)
            st == set(self, i, v, <<>>)
        IN  IF i >= self.length
            THEN g.result = "panic" /\ st.result = "panic" /\ st.self = self
            ELSE /\ g.result = "ok" /\ g.value = self.elements[i + 1]
                 /\ st.result = "ok"
                 /\ st.self = [self EXCEPT !.elements[i + 1] = v]
C10_PopTouchesTop ==
    \A a \in Arrays :
        LET self == heap[a]
            r == pop(self)
        IN  self.length > 0 =>
               /\ r.result = "some"
               /\ r.value = self.elements[self.length]
               /\ r.self = [self EXCEPT !.length = self.length - 1]
\* C10 as claimed: pop() on an array of length 0 aborts
C10_TypedWrappersFailFast ==
    /\ C10_GetSetFailFast
    /\ C10_PopTouchesTop
    /\ \A a \in Arrays : heap[a].length = 0 => pop(heap[a]).result = "panic"
\* C10 as amended: get(i) and set(i, v) with i >= length abort; pop() on an
\* array of length 0 returns None and leaves the array as it was; none of
\* them touches a slot outside [0, length).
C10_FailFastExceptPop ==
    /\ C10_GetSetFailFast
    /\ C10_PopTouchesTop
    /\ \A a \in Arrays : heap[a].length = 0 =>
          pop(heap[a]) = [result |-> "none", value |-> 0, self |-> heap[a]]
\* an array holds an element and a get behind its length has ended the run
C10_Witness ==
    \/ aborted /\ last_op.op = "get" /\ last_op.result = "panic"
    \/ \E a \in Arrays : heap[a].length = 1 /\ heap[a].capacity = 2

\* C11: resize(n) with n < capacity fails for every array type and leaves
\* length, capacity and the element buffer as they were, so that capacity
\* never decreases.
C11_ResizeOnlyEnlarges ==
    \A a \in Arrays : \A n \in 0..MaxCapacity :
        n < heap[a].capacity =>
            resize(heap[a], n) = [result |-> "panic", self |-> heap[a]]

\* C12: push(v) followed by pop() returns v, restores length and leaves
\* every slot in [0, length) holding the value it held before the push, also
\* when the push has grown the buffer.
C12_PushPopIdentity ==
    \A a \in Arrays : \A v \in ElementValues(a) :
        LET self == heap[a]
            pushed == push(self, v, <<>>)
            popped == pop(pushed.self)
        IN  /\ pushed.result = "ok"
            /\ popped.result = "some"
            /\ popped.value = v
            /\ popped.self.length = self.length
            /\ \A i \in 1..self.length :
                  popped.self.elements[i] = self.elements[i]

\* C13: resize(n) with n >= capacity succeeds, sets capacity to n, leaves
\* length unchanged and preserves every slot in [0, length); the slots a
\* string array gains in [old capacity, n) are null.
C13_ResizePreserves ==
    \A a \in Arrays : \A n \in 0..(MaxCapacity + 1) :
        LET self == heap[a]
            r == resize(self, n)
        IN  n >= self.capacity =>
               /\ r.result = "ok"
               /\ r.self.capacity = n
               /\ r.self.length = self.length
               /\ \A i \in 1..self.length : r.self.elements[i] = self.elements[i]
               /\ self.object_type = "StringArray" =>
                     \A i \in (self.capacity + 1)..n : r.self.elements[i] = NULL

\* ==== the compiler front end ==============================================
\* ---- ast/mod.rs ----------------------------------------------------------
NoType == "None"
TypeError == "error"
ScalarType == {"Int", "Float", "String", "Bool"}

Expression(kind, name, args) ==
    [kind |-> kind, name |-> name, n |-> 0, args |-> args]
NumberLiteral == Expression("Number", "", <<>>)
Number(n) == [NumberLiteral EXCEPT !.n = n]
FloatLiteral == Expression("Float", "", <<>>)
StringLiteral == Expression("String", "", <<>>)
BoolLiteral == Expression("Bool", "", <<>>)
Identifier(name) == Expression("Identifier", name, <<>>)
Call(name, args) == Expression("Call", name, args)
ArrayLiteral(elements) == Expression("Array", "", elements)
\* the None of an Option<Expression>
NoExpression == Expression("None", "", <<>>)

Statement(kind, name, mutable, value, end, inclusive, block, has_else, else_block) ==
    [kind |-> kind,
     name |-> name,
     block |-> block,
     value |-> value,
     mutable |-> mutable,
     end |-> end,
     inclusive |-> inclusive,
     has_else |-> has_else,
     else_block |-> else_block]
\* `let name = value` or `let mut name = value`, without a type annotation
LetStatement(name, mutable, value) ==
    Statement("Let", name, mutable, value, NoExpression, FALSE, <<>>, FALSE, <<>>)
AssignmentStatement(name, value) ==
    Statement("Assignment", name, FALSE, value, NoExpression, FALSE, <<>>, FALSE, <<>>)
ReturnStatement(value) ==
    Statement("Return", "", FALSE, value, NoExpression, FALSE, <<>>, FALSE, <<>>)
ExpressionStatement(value) ==
    Statement("Expression", "", FALSE, value, NoExpression, FALSE, <<>>, FALSE, <<>>)
IfStatement(condition, then_block, has_else, else_block) ==
    Statement("If", "", FALSE, condition, NoExpression, FALSE, then_block,
              has_else, else_block)
ForStatement(variable, start, end, inclusive, body) ==
    Statement("For", variable, FALSE, start, end, inclusive, body, FALSE, <<>>)

\* the functions of the program: `func main()` and `func f(x: int) -> int`
FunctionNames == {"main", "f"}
Params(func) == IF func = "f" THEN <<[name |-> "x", ty |-> "Int"]>> ELSE <<>>
ReturnType(func) == IF func = "f" THEN "Int" ELSE NoType

\* ---- typechecker/mod.rs --------------------------------------------------
TypeInfo(ty, is_mutable, function_kind, param_types, return_type) ==
    [ty |-> ty, is_mutable |-> is_mutable, function_kind |-> function_kind,
     param_types |-> param_types, return_type |-> return_type]
VariableInfo(ty, is_mutable) == TypeInfo(ty, is_mutable, "None", <<>>, NoType)

\* the function table after register_builtin_functions and register_function
FunctionTable ==
    [name \in FunctionNames \cup {"print"} |->
        IF name = "print"
        THEN TypeInfo("Int", FALSE, "Builtin", <<>>, NoType)
        ELSE TypeInfo(IF ReturnType(name) = NoType THEN "Int" ELSE ReturnType(name),
                      FALSE, "Regular",
                      [i \in 1..Len(Params(name)) |-> Params(name)[i].ty],
                      ReturnType(name))]

EmptyScope == [name \in {} |-> VariableInfo("Int", FALSE)]
Fail(state) == [state EXCEPT !.result = "err"]

push_scope(tc) == [tc EXCEPT !.scopes = Append(@, EmptyScope)]
pop_scope(tc) ==
    [tc EXCEPT !.scopes = IF @ = <<>> THEN @ ELSE SubSeq(@, 1, Len(@) - 1)]

declare_variable(tc, name, ty, is_mutable) ==
    IF tc.scopes = <<>> THEN Fail(tc)
    ELSE LET current_scope == tc.scopes[Len(tc.scopes)]
         IN  IF name \in DOMAIN current_scope THEN Fail(tc)
             ELSE [tc EXCEPT !.scopes[Len(tc.scopes)] =
                      [n \in DOMAIN current_scope \cup {name} |->
                          IF n = name THEN VariableInfo(ty, is_mutable)
                          ELSE current_scope[n]]]

lookup(tc, name) ==
    LET holders == {i \in 1..Len(tc.scopes) : name \in DOMAIN tc.scopes[i]}
        innermost == CHOOSE i \in holders : \A j \in holders : j <= i
    IN  IF holders # {}
        THEN [found |-> TRUE, info |-> tc.scopes[innermost][name]]
        ELSE IF name \in DOMAIN tc.functions
        THEN [found |-> TRUE, info |-> tc.functions[name]]
        ELSE [found |-> FALSE, info |-> VariableInfo(NoType, FALSE)]

ArrayOf(element_type) ==
    CASE element_type = "Int" -> "IntArray"
      [] element_type = "Float" -> "FloatArray"
      [] element_type = "String" -> "StringArray"
      [] element_type = "Bool" -> "BoolArray"
      [] OTHER -> TypeError

RECURSIVE TypeChecker_infer_expression_type(_, _)
\* the rule for array literals: the element type is that of the first
\* element, the others must match, the empty literal is rejected
infer_array_literal_type(tc, elements) ==
    IF elements = <<>> THEN TypeError
    ELSE LET first == TypeChecker_infer_expression_type(tc, elements[1])
         IN  IF \E i \in 1..Len(elements) :
                    TypeChecker_infer_expression_type(tc, elements[i]) # first
             THEN TypeError
             ELSE ArrayOf(first)

\* arity and positional types of a call of a Regular function
ArgumentsMatch(tc, args, param_types) ==
    /\ Len(args) = Len(param_types)
    /\ \A i \in 1..Len(args) :
          TypeChecker_infer_expression_type(tc, args[i]) = param_types[i]

TypeChecker_infer_expression_type(tc, expr) ==
    CASE expr.kind = "Number" -> "Int"
      [] expr.kind = "Float" -> "Float"
      [] expr.kind = "String" -> "String"
      [] expr.kind = "Bool" -> "Bool"
      [] expr.kind = "Identifier" ->
            LET l == lookup(tc, expr.name)
            IN  IF ~l.found THEN TypeError
                ELSE IF l.info.function_kind # "None" THEN TypeError
                ELSE l.info.ty
      [] expr.kind = "Call" ->
            LET l == lookup(tc, expr.name)
            IN  IF ~l.found THEN TypeError
                ELSE IF l.info.function_kind = "Builtin" THEN TypeError
                ELSE IF l.info.function_kind = "Regular"
                THEN IF ~ArgumentsMatch(tc, expr.args, l.info.param_types)
                     THEN TypeError
                     ELSE IF l.info.return_type = NoType THEN TypeError
                     ELSE l.info.return_type
                ELSE TypeError
      [] expr.kind = "Array" -> infer_array_literal_type(tc, expr.args)
      [] OTHER -> TypeError

\* "ok" or "err": the Result of check_expression_statement
check_expression_statement(tc, expr) ==
    IF expr.kind = "Call"
    THEN LET l == lookup(tc, expr.name)
         IN  IF ~l.found THEN "err"
             ELSE IF l.info.function_kind = "Builtin"
             THEN IF expr.args = <<>> THEN "err"
                  ELSE IF \E i \in 1..Len(expr.args) :
                             TypeChecker_infer_expression_type(tc, expr.args[i])
                                 \notin ScalarType
                  THEN "err"
                  ELSE "ok"
             ELSE IF l.info.function_kind = "Regular"
             THEN IF ArgumentsMatch(tc, expr.args, l.info.param_types)
                  THEN "ok" ELSE "err"
             ELSE "err"
    ELSE IF TypeChecker_infer_expression_type(tc, expr) = TypeError
         THEN "err" ELSE "ok"

RECURSIVE check_statement(_, _)
RECURSIVE check_block(_, _)
check_block(tc, block) ==
    IF block = <<>> \/ tc.result = "err" THEN tc
    ELSE check_block(check_statement(tc, Head(block)), Tail(block))

check_statement(tc, stmt) ==
    LET value_type == TypeChecker_infer_expression_type(tc, stmt.value)
    IN
    CASE stmt.kind = "Let" ->
            IF value_type = TypeError THEN Fail(tc)
            ELSE declare_variable(tc, stmt.name, value_type, stmt.mutable)
      [] stmt.kind = "Assignment" ->
            LET l == lookup(tc, stmt.name)
            IN  IF ~l.found THEN Fail(tc)
                ELSE IF l.info.function_kind # "None" THEN Fail(tc)
                ELSE IF ~l.info.is_mutable THEN Fail(tc)
                ELSE IF value_type = TypeError THEN Fail(tc)
                ELSE IF value_type # l.info.ty THEN Fail(tc)
                ELSE tc
      [] stmt.kind = "Return" ->
            LET return_type == IF stmt.value = NoExpression THEN NoType
                               ELSE value_type
            IN  IF return_type = TypeError THEN Fail(tc)
                ELSE IF return_type # tc.current_function_return_type THEN Fail(tc)
                ELSE tc
      [] stmt.kind = "Expression" ->
            \* `let _ = self.check_expression_statement(expr);`
            tc
      [] stmt.kind = "If" ->
            IF value_type = TypeError THEN Fail(tc)
            ELSE IF value_type # "Bool" THEN Fail(tc)
            ELSE LET after_then == check_block(tc, stmt.block)
                 IN  IF after_then.result = "err" THEN after_then
                     ELSE IF stmt.has_else
                     THEN check_block(after_then, stmt.else_block)
                     ELSE after_then
      [] stmt.kind = "For" ->
            LET end_type == TypeChecker_infer_expression_type(tc, stmt.end)
            IN  IF value_type = TypeError \/ end_type = TypeError THEN Fail(tc)
                ELSE IF value_type # end_type THEN Fail(tc)
                ELSE IF value_type # "Int" THEN Fail(tc)
                ELSE LET declared == declare_variable(push_scope(tc), stmt.name,
                                                      "Int", FALSE)
                         checked == check_block(declared, stmt.block)
                     IN  IF checked.result = "err" THEN checked
                         ELSE pop_scope(checked)
      [] OTHER -> Fail(tc)

RECURSIVE declare_parameters(_, _, _)
declare_parameters(tc, params, i) ==
    IF i > Len(params) \/ tc.result = "err" THEN tc
    ELSE declare_parameters(
             declare_variable(tc, params[i].name, params[i].ty, FALSE),
             params, i + 1)

\* TypeChecker::new and check_program up to the body of func: the checker
\* when check_function is about to check the body
check_function_enter(func) ==
    declare_parameters(
        [result |-> "ok",
         scopes |-> <<EmptyScope>>,
         functions |-> FunctionTable,
         current_function_return_type |-> ReturnType(func)],
        Params(func), 1)
\* the end of check_function
check_function_leave(tc) == pop_scope(tc)

\* ---- compiler/src/codegen/mod.rs -----------------------------------------
\* an instruction of a basic block: a call carries its callee (and, for
\* printf, its format), an icmp its predicate and the widths of its
\* operands, a branch its target blocks
Instr(op, name) ==
    [name |-> name,
     op |-> op,
     fmt |-> "",
     trailer |-> "",
     lhs |-> 0,
     rhs |-> 0,
     operand |-> 0,
     origin |-> "",
     targets |-> <<>>,
     bits |-> 0]
Terminators == {"ret", "br", "condbr"}

\* get_native_int_type: i64 or i32 with the target's pointer width
get_native_int_type(cg) == cg.target_pointer_width
\* the width of the integer a value of type ty is lowered to, 0 for a
\* float or a pointer
IntWidth(cg, ty) ==
    IF ty = "Int" THEN get_native_int_type(cg)
    ELSE IF ty = "Bool" THEN 1 ELSE 0

Emit(cg, instr) ==
    [cg EXCEPT !.blocks[cg.insert_block].instrs = Append(@, instr)]
append_basic_block(cg, name) ==
    [cg EXCEPT !.blocks = Append(@, [name |-> name, instrs |-> <<>>])]
position_at_end(cg, block) == [cg EXCEPT !.insert_block = block]

\* LLVM's getTerminator: the last instruction of the block when it is a
\* terminator
current_block_has_no_terminator(cg) ==
    LET instrs == cg.blocks[cg.insert_block].instrs
    IN  instrs = <<>> \/ instrs[Len(instrs)].op \notin Terminators

\* the alloca goes before the first instruction of the entry block
create_entry_block_alloca(cg, name, ty) ==
    [cg EXCEPT !.blocks[1].instrs =
        <<[Instr("alloca", name) EXCEPT !.bits = IntWidth(cg, ty)]>> \o @]

insert_variable(cg, name, ty, mutable) ==
    [cg EXCEPT !.variables =
        [n \in DOMAIN cg.variables \cup {name} |->
            IF n = name THEN [mutable |-> mutable, ty |-> ty]
            ELSE cg.variables[n]]]

RECURSIVE CodeGenerator_infer_expression_type(_, _)
CodeGenerator_infer_expression_type(cg, expr) ==
    CASE expr.kind = "Number" -> "Int"
      [] expr.kind = "Float" -> "Float"
      [] expr.kind = "String" -> "String"
      [] expr.kind = "Bool" -> "Bool"
      [] expr.kind = "Identifier" ->
            IF expr.name \in DOMAIN cg.variables
            THEN cg.variables[expr.name].ty ELSE TypeError
      [] expr.kind = "Array" ->
            IF expr.args = <<>> THEN TypeError
            ELSE ArrayOf(CodeGenerator_infer_expression_type(cg, expr.args[1]))
      [] OTHER -> TypeError

\* the printf format of one print argument
PrintFormat(cg, arg_type, is_last) ==
    CASE arg_type = "Int" ->
            [fmt |-> IF cg.target_pointer_width = 64 THEN "%lld" ELSE "%d",
             trailer |-> IF is_last THEN "\n" ELSE " "]
      [] arg_type = "String" ->
            [fmt |-> "%s", trailer |-> IF is_last THEN "\n" ELSE ""]
      [] arg_type = "Bool" ->
            [fmt |-> "true|false", trailer |-> IF is_last THEN "\n" ELSE " "]
      [] arg_type = "Float" ->
            [fmt |-> "%f", trailer |-> IF is_last THEN "\n" ELSE " "]
      [] OTHER ->
            [fmt |-> "[array@%p]", trailer |-> IF is_last THEN "\n" ELSE " "]

ElementName(element_type) ==
    CASE element_type = "Int" -> "int"
      [] element_type = "Float" -> "float"
      [] element_type = "String" -> "string"
      [] OTHER -> "bool"

Value(cg, bits) == [origin |-> "", bits |-> bits, cg |-> cg, const |-> 0]

\* IntType::const_int(n as u64, false): n in two's complement of the width.
\* The literals of the model lie in [I32_MIN, I32_MAX], where the
\* truncation to 32 or to 64 bits leaves the value as it is.
I32_MAX == 2147483647
I32_MIN == -I32_MAX - 1
const_int(bits, n) == n

RECURSIVE compile_expression(_, _)
RECURSIVE compile_array_elements(_, _, _, _)
RECURSIVE compile_print_arguments(_, _, _)
RECURSIVE compile_call_arguments(_, _, _)

\* the loop of compile_<T>_array over the elements of the literal
compile_array_elements(cg, elements, set_fn, index) ==
    IF index > Len(elements) \/ cg.result = "err" THEN cg
    ELSE LET value == compile_expression(cg, elements[index])
         IN  IF value.cg.result = "err" THEN value.cg
             ELSE compile_array_elements(
                      Emit(value.cg, [Instr("call", set_fn) EXCEPT
                                         !.origin = value.origin]),
                      elements, set_fn, index + 1)

\* compile_int_array, compile_float_array, compile_bool_array and
\* compile_string_array
compile_array(cg, elements, element_type) ==
    LET allocated ==
            Emit(cg, Instr("call", "naviary_allocate_" \o ElementName(element_type)
                                       \o "_array"))
    IN  compile_array_elements(allocated, elements,
                               "naviary_array_set_" \o ElementName(element_type), 1)

\* the loop of the print call over its arguments
compile_print_arguments(cg, args, i) ==
    IF i > Len(args) \/ cg.result = "err" THEN cg
    ELSE LET arg_type == CodeGenerator_infer_expression_type(cg, args[i])
             format == PrintFormat(cg, arg_type, i = Len(args))
             value == compile_expression(cg, args[i])
             selected == IF arg_type = "Bool"
                         THEN Emit(value.cg, Instr("select", "bool_str"))
                         ELSE value.cg
             printed == Emit(selected,
                             [Instr("call", "printf") EXCEPT
                                 !.fmt = format.fmt, !.trailer = format.trailer])
         IN  IF arg_type = TypeError THEN Fail(cg)
             ELSE IF value.cg.result = "err" THEN value.cg
             ELSE compile_print_arguments(printed, args, i + 1)

compile_call_arguments(cg, args, i) ==
    IF i > Len(args) \/ cg.result = "err" THEN cg
    ELSE compile_call_arguments(compile_expression(cg, args[i]).cg, args, i + 1)

compile_expression(cg, expr) ==
    CASE expr.kind = "Number" ->
            [Value(cg, get_native_int_type(cg)) EXCEPT
                !.const = const_int(get_native_int_type(cg), expr.n)]
      [] expr.kind = "Float" -> Value(cg, 0)
      [] expr.kind = "Bool" -> Value(cg, 1)
      [] expr.kind = "String" ->
            \* build_global_string_ptr: the address of a constant of the module
            [Value(cg, 0) EXCEPT !.origin = "global_string_ptr"]
      [] expr.kind = "Array" ->
            IF expr.args = <<>> THEN Value(Fail(cg), 0)
            ELSE LET element_type ==
                         CodeGenerator_infer_expression_type(cg, expr.args[1])
                 IN  IF element_type \notin ScalarType THEN Value(Fail(cg), 0)
                     ELSE Value(compile_array(cg, expr.args, element_type), 0)
      [] expr.kind = "Identifier" ->
            IF expr.name \notin DOMAIN cg.variables THEN Value(Fail(cg), 0)
            ELSE Value(Emit(cg, [Instr("load", expr.name) EXCEPT
                                    !.bits = IntWidth(cg, cg.variables[expr.name].ty)]),
                       IntWidth(cg, cg.variables[expr.name].ty))
      [] expr.kind = "Call" /\ expr.name = "print" ->
            IF expr.args = <<>> THEN Value(Fail(cg), 0)
            ELSE Value(compile_print_arguments(cg, expr.args, 1), 32)
      [] expr.kind = "Call" /\ expr.name # "print" ->
            IF expr.name \notin cg.functions THEN Value(Fail(cg), 0)
            ELSE LET compiled == compile_call_arguments(cg, expr.args, 1)
                 IN  IF compiled.result = "err" THEN Value(compiled, 0)
                     ELSE [Value(Emit(compiled, Instr("call", expr.name)),
                                 IF ReturnType(expr.name) = NoType THEN 32
                                 ELSE IntWidth(cg, ReturnType(expr.name)))
                              EXCEPT !.origin = expr.name]
      [] OTHER -> Value(Fail(cg), 0)

RECURSIVE compile_statement(_, _)
RECURSIVE compile_block(_, _)
compile_block(cg, block) ==
    IF block = <<>> \/ cg.result = "err" THEN cg
    ELSE compile_block(compile_statement(cg, Head(block)), Tail(block))

\* Statement::Let
compile_let(cg, stmt) ==
    LET var_type ==
            IF stmt.value.kind = "Array"
            THEN IF stmt.value.args = <<>> THEN TypeError
                 ELSE ArrayOf(CodeGenerator_infer_expression_type(
                                  cg, stmt.value.args[1]))
            ELSE CodeGenerator_infer_expression_type(cg, stmt.value)
        val == compile_expression(cg, stmt.value)
        stored == Emit(create_entry_block_alloca(val.cg, stmt.name, var_type),
                       Instr("store", stmt.name))
    IN  IF var_type = TypeError THEN Fail(cg)
        ELSE IF val.cg.result = "err" THEN val.cg
        ELSE insert_variable(stored, stmt.name, var_type, stmt.mutable)

\* Statement::Assignment
compile_assignment(cg, stmt) ==
    IF stmt.name \notin DOMAIN cg.variables THEN Fail(cg)
    ELSE LET new_value == compile_expression(cg, stmt.value)
         IN  IF new_value.cg.result = "err" THEN new_value.cg
             ELSE Emit(new_value.cg, Instr("store", stmt.name))

\* Statement::Return
compile_return(cg, stmt) ==
    IF stmt.value = NoExpression THEN Emit(cg, Instr("ret", "void"))
    ELSE LET val == compile_expression(cg, stmt.value)
         IN  IF val.cg.result = "err" THEN val.cg
             ELSE Emit(val.cg, Instr("ret", "value"))

\* the lowering of one branch of an if: the block, then the jump to merge
\* when the branch has not ended in a terminator
compile_branch(cg, block, merge_bb) ==
    LET compiled == compile_block(cg, block)
    IN  IF compiled.result = "err" THEN compiled
        ELSE IF current_block_has_no_terminator(compiled)
        THEN Emit(compiled, [Instr("br", "") EXCEPT !.targets = <<merge_bb>>])
        ELSE compiled

\* Statement::If
compile_if(cg, stmt) ==
    LET condition_value == compile_expression(cg, stmt.value)
        cg1 == condition_value.cg
        then_bb == Len(cg1.blocks) + 1
        else_bb == Len(cg1.blocks) + 2
        merge_bb == Len(cg1.blocks) + 3
        cg2 == append_basic_block(append_basic_block(
                   append_basic_block(cg1, "then"), "else"), "merge")
        cg3 == Emit(cg2, [Instr("condbr", "") EXCEPT !.targets =
                   <<then_bb, IF stmt.has_else THEN else_bb ELSE merge_bb>>])
        cg4 == compile_branch(position_at_end(cg3, then_bb), stmt.block, merge_bb)
        cg5 == IF stmt.has_else
               THEN compile_branch(position_at_end(cg4, else_bb),
                                   stmt.else_block, merge_bb)
               ELSE Emit(position_at_end(cg4, else_bb),
                         [Instr("br", "") EXCEPT !.targets = <<merge_bb>>])
    IN  IF cg1.result = "err" THEN cg1
        ELSE IF cg4.result = "err" THEN cg4
        ELSE IF cg5.result = "err" THEN cg5
        ELSE position_at_end(cg5, merge_bb)

\* Statement::For
compile_for(cg, stmt) ==
    LET start_val == compile_expression(cg, stmt.value)
        end_val == compile_expression(start_val.cg, stmt.end)
        cg1 == end_val.cg
        loop_header == Len(cg1.blocks) + 1
        loop_body == Len(cg1.blocks) + 2
        loop_exit == Len(cg1.blocks) + 3
        cg2 == append_basic_block(append_basic_block(
                   append_basic_block(cg1, "loop_header"), "loop_body"),
                   "loop_exit")
        cg3 == Emit(Emit(create_entry_block_alloca(cg2, stmt.name, "Int"),
                         [Instr("store", "start_val") EXCEPT
                             !.operand = start_val.const,
                             !.bits = start_val.bits]),
                    [Instr("br", "") EXCEPT !.targets = <<loop_header>>])
        \* loop_header: load as i32, compare, branch
        cg4 == Emit(Emit(Emit(position_at_end(cg3, loop_header),
                              [Instr("load", stmt.name) EXCEPT !.bits = 32]),
                         [Instr("icmp", IF stmt.inclusive THEN "SLE" ELSE "SLT")
                             EXCEPT !.lhs = 32, !.rhs = end_val.bits,
                                    !.operand = end_val.const]),
                    [Instr("condbr", "") EXCEPT !.targets = <<loop_body, loop_exit>>])
        old_vars == cg4.variables
        cg5 == compile_block(
                   insert_variable(position_at_end(cg4, loop_body),
                                   stmt.name, "Int", FALSE),
                   stmt.block)
        \* i++ and back to loop_header
        cg6 == Emit(Emit(Emit(Emit(cg5, [Instr("load", stmt.name) EXCEPT !.bits = 32]),
                              [Instr("add", "next_i") EXCEPT !.bits = 32]),
                         [Instr("store", "next_i") EXCEPT !.bits = 32]),
                    [Instr("br", "") EXCEPT !.targets = <<loop_header>>])
    IN  IF start_val.cg.result = "err" THEN start_val.cg
        ELSE IF cg1.result = "err" THEN cg1
        ELSE IF cg5.result = "err" THEN cg5
        ELSE [position_at_end(cg6, loop_exit) EXCEPT !.variables = old_vars]

compile_statement(cg, stmt) ==
    CASE stmt.kind = "Let" -> compile_let(cg, stmt)
      [] stmt.kind = "Assignment" -> compile_assignment(cg, stmt)
      [] stmt.kind = "Return" -> compile_return(cg, stmt)
      [] stmt.kind = "Expression" -> compile_expression(cg, stmt.value).cg
      [] stmt.kind = "If" -> compile_if(cg, stmt)
      [] stmt.kind = "For" -> compile_for(cg, stmt)
      [] OTHER -> Fail(cg)

RECURSIVE store_parameters(_, _, _)
store_parameters(cg, params, i) ==
    IF i > Len(params) THEN cg
    ELSE store_parameters(
             insert_variable(
                 Emit(create_entry_block_alloca(cg, params[i].name, params[i].ty),
                      Instr("store", params[i].name)),
                 params[i].name, params[i].ty, FALSE),
             params, i + 1)

\* CodeGenerator::new, compile_program's declarations and compile_function
\* up to the body of func
compile_function_enter(func, target_pointer_width) ==
    store_parameters(
        [result |-> "ok",
         functions |-> FunctionNames \cup {"printf"},
         target_pointer_width |-> target_pointer_width,
         blocks |-> <<[name |-> "entry", instrs |-> <<>>]>>,
         insert_block |-> 1,
         variables |-> [n \in {} |-> [mutable |-> FALSE, ty |-> "Int"]],
         current_function |-> func],
        Params(func), 1)

\* the end of compile_function: the implicit return
compile_function_leave(cg) ==
    IF current_block_has_no_terminator(cg)
    THEN IF ReturnType(cg.current_function) = NoType
         THEN Emit(cg, Instr("ret", "void"))
         ELSE IF cg.current_function = "main"
         THEN Emit(cg, [Instr("ret", "value") EXCEPT
                           !.operand = const_int(32, 0), !.bits = 32])
         ELSE Fail(cg)
    ELSE cg

\* a block as the verifier accepts it: it ends in a terminator and holds no
\* other one
BlockWellFormed(block) ==
    /\ block.instrs # <<>>
    /\ \A i \in 1..Len(block.instrs) :
          block.instrs[i].op \in Terminators <=> i = Len(block.instrs)

\* self.module.verify() at the end of compile_program
verify(cg) ==
    /\ \A b \in 1..Len(cg.blocks) : BlockWellFormed(cg.blocks[b])
    /\ \A b \in 1..Len(cg.blocks) : \A i \in 1..Len(cg.blocks[b].instrs) :
          LET instr == cg.blocks[b].instrs[i]
          IN  instr.op = "icmp" => instr.lhs = instr.rhs

\* the end of compile_program
compile_program_leave(cg) ==
    LET compiled == compile_function_leave(cg)
    IN  IF compiled.result = "err" THEN compiled
        ELSE IF ~verify(compiled) THEN Fail(compiled)
        ELSE compiled

\* ---- main.rs: check_program, then compile_program -----------------------
\* The program is `func main()` and `func f(x: int) -> int`; the body of one
\* of them is given statement by statement to the checker and to the
\* lowering, the body of the other one is fixed and well-formed.
MaxStatements == 2
PointerWidths == {32, 64}
VariableNames == {"x", "i"}

PrintCall(args) == Call("print", args)
LetValues ==
    {Number(1), BoolLiteral, ArrayLiteral(<<Number(1)>>),
     ArrayLiteral(<<StringLiteral>>), Call("f", <<Number(1)>>), Identifier("i")}
AssignmentValues == {Number(1), BoolLiteral}
ReturnValues == {NoExpression, Number(1)}
Conditions == {BoolLiteral, Number(1)}
PrintArguments ==
    {<<Number(1)>>, <<StringLiteral, Number(1)>>, <<Number(1), StringLiteral>>,
     <<BoolLiteral, FloatLiteral, Number(1)>>, <<Identifier("i")>>,
     <<StringLiteral, StringLiteral, BoolLiteral>>,
     <<Call("f", <<Number(1)>>)>>}
ExpressionValues ==
    {PrintCall(args) : args \in PrintArguments} \cup
    {PrintCall(<<>>), Call("g", <<>>), Call("f", <<>>), Call("f", <<BoolLiteral>>),
     Call("f", <<Number(1)>>), Call("x", <<>>), Identifier("i")}
InnerBlocks ==
    {<<>>,
     <<LetStatement("i", FALSE, Number(1))>>,
     <<LetStatement("x", FALSE, Number(1))>>,
     <<AssignmentStatement("i", Number(1))>>,
     <<AssignmentStatement("x", Number(1))>>,
     <<ReturnStatement(NoExpression)>>,
     <<ReturnStatement(Number(1))>>,
     <<ExpressionStatement(PrintCall(<<Identifier("i")>>))>>,
     <<ForStatement("i", Number(0), Number(3), FALSE, <<>>)>>}

InitCompiler ==
    /\ InitRuntime
    /\ loop = Idle
    /\ \E func \in FunctionNames, target_pointer_width \in PointerWidths :
          /\ program = [name |-> func, body |-> <<>>, phase |-> "body"]
          /\ type_checker = check_function_enter(func)
          /\ code_generator = compile_function_enter(func, target_pointer_width)

\* one more statement of the body goes through check_statement and, as
\* compile_program sees the same body, through compile_statement
CompileStatement(stmt) ==
    /\ program.phase = "body"
    /\ Len(program.body) < MaxStatements
    /\ type_checker.result = "ok"
    /\ program' = [program EXCEPT !.body = Append(@, stmt)]
    /\ type_checker' = check_statement(type_checker, stmt)
    /\ code_generator' = IF code_generator.result = "err" THEN code_generator
                         ELSE compile_statement(code_generator, stmt)
    /\ UNCHANGED <<runtime_vars, loop>>

CompileLet ==
    \E name \in VariableNames, mutable \in BOOLEAN, value \in LetValues :
        CompileStatement(LetStatement(name, mutable, value))
CompileAssignment ==
    \E name \in VariableNames, value \in AssignmentValues :
        CompileStatement(AssignmentStatement(name, value))
CompileReturn ==
    \E value \in ReturnValues : CompileStatement(ReturnStatement(value))
CompileExpression ==
    \E value \in ExpressionValues : CompileStatement(ExpressionStatement(value))
CompileIf ==
    \E condition \in Conditions, then_block \in InnerBlocks,
       has_else \in BOOLEAN, else_block \in InnerBlocks :
        /\ ~has_else => else_block = <<>>
        /\ CompileStatement(IfStatement(condition, then_block, has_else, else_block))
CompileFor ==
    \E end \in {Number(3), BoolLiteral}, inclusive \in BOOLEAN,
       body \in InnerBlocks :
        CompileStatement(ForStatement("i", Number(0), end, inclusive, body))

\* the end of the body: check_function and check_program return, and
\* compile_function and compile_program do
FinishProgram ==
    /\ program.phase = "body"
    /\ program' = [program EXCEPT !.phase = "done"]
    /\ type_checker' = IF type_checker.result = "err" THEN type_checker
                       ELSE check_function_leave(type_checker)
    /\ code_generator' = IF code_generator.result = "err" THEN code_generator
                         ELSE compile_program_leave(code_generator)
    /\ UNCHANGED <<runtime_vars, loop>>

NextCompiler ==
    \/ CompileLet
    \/ CompileAssignment
    \/ CompileReturn
    \/ CompileExpression
    \/ CompileIf
    \/ CompileFor
    \/ FinishProgram

SpecCompiler == InitCompiler /\ [][NextCompiler]_vars

\* check_program returned Ok for the whole program
Accepted == program.phase = "done" /\ type_checker.result = "ok"

\* ---- the front end's claims ---------------------------------------------
Checking == program.phase = "body" /\ type_checker.result = "ok"
Lowering == program.phase = "body" /\ code_generator.result = "ok"
ArrayTypes == {ArrayOf(element_type) : element_type \in ScalarType}

\* C14: for every program the type checker accepts, lowering succeeds and
\* every basic block of the emitted function holds exactly one terminator,
\* as its last instruction.
C14_WellFormedControlFlow ==
    Accepted =>
        /\ code_generator.result = "ok"
        /\ \A b \in 1..Len(code_generator.blocks) :
              BlockWellFormed(code_generator.blocks[b])

\* C16: check_program fails for every program that holds an expression
\* statement whose expression is ill-typed: no accepted program has an
\* expression statement that check_expression_statement refuses.
C16_ExpressionStatementsChecked ==
    Accepted =>
        \A k \in 1..Len(program.body) :
            LET stmt == program.body[k]
                before == check_block(check_function_enter(program.name),
                                      SubSeq(program.body, 1, k - 1))
            IN  stmt.kind = "Expression" =>
                    check_expression_statement(before, stmt.value) = "ok"

\* C17: the branches of an if are checked in fresh nested scopes: a let in
\* a branch is accepted whatever the enclosing scopes and the other branch
\* declare, it leaves the scope stack as it was before the if, and the
\* name it declares is not visible in the other branch.
C17_IfBranchScopes ==
    Checking =>
        \A name \in VariableNames :
            LET declare == <<LetStatement(name, FALSE, Number(1))>>
                use == <<LetStatement("u", FALSE, Identifier(name))>>
                one == check_statement(type_checker,
                           IfStatement(BoolLiteral, declare, FALSE, <<>>))
                both == check_statement(type_checker,
                            IfStatement(BoolLiteral, declare, TRUE, declare))
                other == check_statement(type_checker,
                             IfStatement(BoolLiteral, declare, TRUE, use))
            IN  /\ one.result = "ok" /\ one.scopes = type_checker.scopes
                /\ both.result = "ok" /\ both.scopes = type_checker.scopes
                /\ ~lookup(type_checker, name).found => other.result = "err"

\* block assigns to the variable name
Assigns(block, name) ==
    \E k \in 1..Len(block) :
        block[k].kind = "Assignment" /\ block[k].name = name
\* the statements that use the variable name
Uses(name) ==
    {LetStatement("u", FALSE, Identifier(name)),
     AssignmentStatement(name, Number(1)),
     ExpressionStatement(Identifier(name)),
     ExpressionStatement(PrintCall(<<Identifier(name)>>))}

\* C18: the checker rejects a for loop whose body assigns to the loop
\* variable or to a parameter, leaves the scope stack after the loop as it
\* was before it, and rejects every use of the loop variable after the loop
\* when no outer variable has its name.
C18_LoopVariableScoped ==
    Checking =>
        \A body \in InnerBlocks :
            LET after == check_statement(type_checker,
                             ForStatement("i", Number(0), Number(3), FALSE, body))
                params == Params(program.name)
            IN  /\ Assigns(body, "i") => after.result = "err"
                /\ \A p \in 1..Len(params) :
                      Assigns(body, params[p].name) => after.result = "err"
                /\ after.result = "ok" => after.scopes = type_checker.scopes
                /\ after.result = "ok" /\ ~lookup(type_checker, "i").found =>
                      \A use \in Uses("i") :
                          check_statement(after, use).result = "err"

\* the printf calls among the instructions the lowering of expr appends to
\* the current block
PrintfCalls(cg, expr) ==
    LET compiled == compile_expression(cg, expr).cg
        before == cg.blocks[cg.insert_block].instrs
        after == compiled.blocks[cg.insert_block].instrs
        IsPrintf(instr) == instr.op = "call" /\ instr.name = "printf"
    IN  SelectSeq(SubSeq(after, Len(before) + 1, Len(after)), IsPrintf)

\* C19: a print call with n >= 1 arguments is lowered to n output calls in
\* the order of the arguments, each of the first n - 1 followed by one
\* space and the last by one newline, whatever the types of the arguments.
C19_PrintSeparators ==
    Lowering =>
        \A args \in PrintArguments :
            LET calls == PrintfCalls(code_generator, PrintCall(args))
            IN  compile_expression(code_generator, PrintCall(args)).cg.result = "ok" =>
                    /\ Len(calls) = Len(args)
                    /\ \A k \in 1..Len(args) :
                          calls[k].trailer = IF k = Len(args) THEN "\n" ELSE " "

\* C20: the lowered code registers every array it stores into a variable's
\* stack slot as a GC root: a function with an array variable holds a call
\* of naviary_gc_add_root.
C20_ArraysRooted ==
    code_generator.result = "ok" =>
        \A name \in DOMAIN code_generator.variables :
            code_generator.variables[name].ty \in ArrayTypes =>
                \E b \in 1..Len(code_generator.blocks) :
                    \E k \in 1..Len(code_generator.blocks[b].instrs) :
                        /\ code_generator.blocks[b].instrs[k].op = "call"
                        /\ code_generator.blocks[b].instrs[k].name =
                               "naviary_gc_add_root"

\* ---- the execution of a lowered for loop --------------------------------
\* `func main() { for i in a..b { print(i); } }` (or a..=b) is checked and
\* lowered, and the instructions of the emitted blocks are executed: slot is
\* the loop variable's stack slot, reg the value of the last load or add,
\* output the integers handed to printf.
MaxIterations == 3
LoopBounds == {4, 5, 6, I32_MAX - 1, I32_MAX}

\* the add of two i32 values
wrapping_add(value) == IF value = I32_MAX THEN I32_MIN ELSE value + 1

LoopProgram(start, end, inclusive) ==
    <<ForStatement("i", Number(start), Number(end), inclusive,
                   <<ExpressionStatement(PrintCall(<<Identifier("i")>>))>>)>>

InitLoop ==
    /\ InitRuntime
    /\ \E start \in LoopBounds, end \in LoopBounds, inclusive \in BOOLEAN,
          target_pointer_width \in PointerWidths :
          LET body == LoopProgram(start, end, inclusive)
          IN  /\ program = [name |-> "main", body |-> body, phase |-> "done"]
              /\ type_checker = check_function_leave(
                     check_block(check_function_enter("main"), body))
              /\ code_generator = compile_program_leave(
                     compile_block(
                         compile_function_enter("main", target_pointer_width),
                         body))
    /\ loop = [result |-> "running", block |-> 1, ip |-> 1, slot |-> 0,
               reg |-> 0, cond |-> FALSE, output |-> <<>>]

\* the instruction the execution is at
Current == code_generator.blocks[loop.block].instrs[loop.ip]
Running(op) ==
    /\ type_checker.result = "ok"
    /\ code_generator.result = "ok"
    /\ loop.result = "running"
    /\ Current.op = op
Step(next) ==
    /\ loop' = [next EXCEPT !.ip = @ + 1]
    /\ UNCHANGED <<runtime_vars, program, type_checker, code_generator>>
Jump(block) ==
    /\ loop' = [loop EXCEPT !.block = block, !.ip = 1]
    /\ UNCHANGED <<runtime_vars, program, type_checker, code_generator>>

ExecAlloca == Running("alloca") /\ Step(loop)
ExecStore ==
    /\ Running("store")
    /\ Step([loop EXCEPT !.slot = IF Current.name = "start_val"
                                  THEN Current.operand ELSE loop.reg])
ExecLoad == Running("load") /\ Step([loop EXCEPT !.reg = loop.slot])
ExecAdd == Running("add") /\ Step([loop EXCEPT !.reg = wrapping_add(loop.reg)])
ExecIcmp ==
    /\ Running("icmp")
    /\ Step([loop EXCEPT !.cond = IF Current.name = "SLE"
                                  THEN loop.reg <= Current.operand
                                  ELSE loop.reg < Current.operand])
ExecCondBr ==
    /\ Running("condbr")
    /\ Jump(IF loop.cond THEN Current.targets[1] ELSE Current.targets[2])
ExecBr == Running("br") /\ Jump(Current.targets[1])
ExecCall ==
    /\ Running("call")
    /\ Len(loop.output) < MaxIterations
    /\ Step([loop EXCEPT !.output = Append(@, loop.reg)])
ExecRet ==
    /\ Running("ret")
    /\ loop' = [loop EXCEPT !.result = "returned"]
    /\ UNCHANGED <<runtime_vars, program, type_checker, code_generator>>

NextLoop ==
    \/ ExecAlloca
    \/ ExecStore
    \/ ExecLoad
    \/ ExecAdd
    \/ ExecIcmp
    \/ ExecCondBr
    \/ ExecBr
    \/ ExecCall
    \/ ExecRet

SpecLoop == InitLoop /\ [][NextLoop]_vars

\* the number of values of a..b or a..=b
RangeCount(start, end, inclusive) ==
    IF inclusive
    THEN IF end < start THEN 0 ELSE end - start + 1
    ELSE IF end <= start THEN 0 ELSE end - start

\* C15: the lowered blocks of `for i in a..b` run the body max(0, b - a)
\* times and those of `for i in a..=b` max(0, b - a + 1) times, with
\* i = a, a + 1, ... in that order: the body never runs more often, and the
\* loop has run it that often when the function returns.
C15_IterationCount ==
    loop.result \in {"running", "returned"} =>
        LET for == program.body[1]
            n == RangeCount(for.value.n, for.end.n, for.inclusive)
        IN  /\ Len(loop.output) <= n
            /\ \A k \in 1..Len(loop.output) :
                  loop.output[k] = for.value.n + (k - 1)
            /\ loop.result = "returned" => Len(loop.output) = n

\* the instructions of every block of the function being lowered
Instructions(cg) ==
    UNION {Range(cg.blocks[b].instrs) : b \in 1..Len(cg.blocks)}

\* C21: every pointer the lowered code passes as the element argument of
\* naviary_array_set_string was returned by the runtime's string allocator,
\* naviary_allocate_string, and so is the header of a String object on the
\* all-objects list.
C21_StringElementsAllocated ==
    code_generator.result = "ok" =>
        \A instr \in Instructions(code_generator) :
            instr.op = "call" /\ instr.name = "naviary_array_set_string" =>
                instr.origin = "naviary_allocate_string"

\* ---- the runtime's claims, continued --------------------------------------
\* C22: every allocation tests total_bytes_allocated + requested_size >=
\* threshold before it creates the object, requested_size being the size it
\* later adds to total_bytes_allocated; it runs one collect() before the
\* object is created when the test is true and none when it is false, and
\* that collection neither examines nor frees the new object.
C22_AllocationStep ==
    last_op'.op = "allocate" /\ ~aborted' =>
        LET new == first_object'
            o == heap'[new]
            requested_size == o.object_size
                              + o.capacity * ElementSize(o.object_type)
            tested == ~ULess(total_bytes_allocated + requested_size,
                             garbage_collection_threshold)
            before == IF tested THEN collect(GC) ELSE GC
        IN  /\ before.heap[new] = FreeBlock
            /\ heap' = [before.heap EXCEPT ![new] = o]
            /\ ~o.is_marked
            /\ o.next_object = before.first_object
            /\ garbage_collection_threshold' = before.garbage_collection_threshold
            /\ total_bytes_allocated' = before.total_bytes_allocated + requested_size
            /\ root_objects' = root_objects
            /\ last_op'.freed = Freed(heap, before.heap)
C22_AllocationTrigger == [][C22_AllocationStep]_vars
\* an allocation has run a collection that freed an object, and has left
\* the threshold the collection set
C22_Witness ==
    /\ ~aborted
    /\ last_op.op = "allocate" /\ last_op.freed > 0
    /\ garbage_collection_threshold # INITIAL_THRESHOLD

\* mem::align_of of the element type of each array kind
AlignOf(t) == IF t = "BoolArray" THEN 1 ELSE 8

\* the layout with which allocate_string and allocate_array allocate the
\* object block
object_layout(object_size) == [size |-> object_size, align |-> 8]

\* the layout with which allocate_array allocates the element buffer, and
\* the one resize leaves it with: Layout::array::<T>(capacity)
elements_layout(object_type, capacity) ==
    [size |-> capacity * ElementSize(object_type), align |-> AlignOf(object_type)]

\* the layout free_object passes to dealloc for the object block
free_object_layout(object_size) == [size |-> object_size, align |-> 8]

\* the layout free_array_elements passes to dealloc: align_of::<usize>()
free_array_elements_layout(capacity, element_size) ==
    [size |-> capacity * element_size, align |-> 8]

\* C23: whenever sweep frees an element buffer or an object block, the
\* {size, alignment} it passes to the deallocator equals the one with which
\* that block was most recently allocated or reallocated, for strings and for
\* every array type and capacity.
C23_SweepStep ==
    \A a \in Addr :
        heap[a] # FreeBlock /\ heap'[a] = FreeBlock /\ ~aborted' =>
            LET o == heap[a]
            IN  /\ free_object_layout(o.object_size) = object_layout(o.object_size)
                /\ o.object_type \in ArrayType /\ o.capacity > 0 =>
                      free_array_elements_layout(o.capacity,
                                                 ElementSize(o.object_type))
                          = elements_layout(o.object_type, o.capacity)
C23_MatchingLayouts == [][C23_SweepStep]_vars

\* ---- push on arrays of every capacity ------------------------------------
\* the capacities push starts from: 0 and 1, small ones, and both sides of
\* the 1024 boundary of grow
PushCapacities == {0, 1, 2, 3, 4, 1023, 1024, 1026}

\* one array of a drawn type, capacity and length, and one string, as
\* allocate_array, allocate_string and naviary_array_set leave them
InitPush ==
    /\ \E t \in ArrayType, capacity \in PushCapacities :
         \E length \in {capacity - 2, capacity - 1, capacity} \cap (0..capacity) :
            /\ heap = [a \in Addr |->
                  IF a = BlockStride
                  THEN [is_marked |-> FALSE, next_object |-> NULL,
                        object_size |-> STRING_OBJECT_SIZE + 1,
                        object_type |-> "String", length |-> 1,
                        capacity |-> 0, elements |-> <<>>]
                  ELSE IF a = BlockStride * 2
                  THEN [is_marked |-> FALSE, next_object |-> BlockStride,
                        object_size |-> ARRAY_OBJECT_SIZE, object_type |-> t,
                        length |-> length, capacity |-> capacity,
                        elements |-> [i \in 1..capacity |-> Zero]]
                  ELSE FreeBlock]
            /\ total_bytes_allocated =
                  STRING_OBJECT_SIZE + 1 + ARRAY_OBJECT_SIZE
                  + capacity * ElementSize(t)
    /\ first_object = BlockStride * 2
    /\ garbage_collection_threshold = INITIAL_THRESHOLD
    /\ root_objects = <<>>
    /\ overflow_checks = "either"
    /\ resizes = 0
    /\ aborted = FALSE
    /\ last_op = Returned(Op("new", "new", 0))
    /\ program = Idle
    /\ type_checker = Idle
    /\ code_generator = Idle
    /\ loop = Idle

\* push on an array of any capacity, until a buffer has grown
Push ==
    /\ ~aborted
    /\ resizes < MaxResizes
    /\ \E a \in Arrays :
         \E value \in ElementValues(a) :
            LET at == heap[a].length
                grown == IF at + 1 >= heap[a].capacity
                         THEN grow(heap[a]).self ELSE heap[a]
            IN  \E fill \in [Exposed(grown, at) -> FillValues(a)] :
                   FinishArray(a, push(heap[a], value, fill),
                               Op("call", "push", 0), at >= grown.capacity)

NextPush == Push
SpecPush == InitPush /\ [][NextPush]_vars

\* the capacity the stated policy gives a buffer that grows
StatedCapacity(capacity) ==
    IF capacity < 1024
    THEN (IF 2 * capacity > 4 THEN 2 * capacity ELSE 4)
    ELSE capacity + capacity \div 2
\* the capacity grow gives it
GrownCapacity(capacity) ==
    IF capacity = 0 THEN 4
    ELSE IF capacity < 1024 THEN 2 * capacity
    ELSE capacity + capacity \div 2

\* a push step: the buffer grows exactly when capacity <= length + 1, to
\* NewCapacity(capacity); the capacity does not decrease; the pushed value
\* is at index old length
PushStep(NewCapacity(_)) ==
    \A a \in Arrays :
        heap'[a] # heap[a] /\ ~aborted' =>
            LET old == heap[a]
                new == heap'[a]
            IN  /\ new.capacity = IF old.capacity <= old.length + 1
                                  THEN NewCapacity(old.capacity)
                                  ELSE old.capacity
                /\ new.capacity >= old.capacity
                /\ new.length = old.length + 1
                /\ new.elements[old.length + 1] \in ElementValues(a)

C25_ThresholdStep ==
    ~aborted' =>
        IF last_op'.op = "collect"
        THEN garbage_collection_threshold'
                 = UMax(total_bytes_allocated' * 2, 1024)
        ELSE IF last_op'.op = "allocate"
        THEN LET o == heap'[first_object']
                 requested_size == o.object_size
                                   + o.capacity * ElementSize(o.object_type)
                 post_sweep == total_bytes_allocated' - requested_size
             IN  IF should_collect(GC, requested_size)
                 THEN garbage_collection_threshold' = UMax(post_sweep * 2, 1024)
                 ELSE garbage_collection_threshold' = garbage_collection_threshold
        ELSE garbage_collection_threshold' = garbage_collection_threshold
C25_ThresholdAdaptation ==
    /\ garbage_collection_threshold = 1048576
    /\ [][C25_ThresholdStep]_vars
    /\ [](~ULess(garbage_collection_threshold, 1024))
\* a collection has left a rooted string of 1040 bytes and set the threshold
\* to twice the total
C25_Witness ==
    /\ CollectReturned
    /\ total_bytes_allocated > 512
    /\ garbage_collection_threshold = 2 * total_bytes_allocated

\* C26: for every unmarked array object, sweep frees the array's element
\* buffer strictly before it frees the array's own block; it reads the next
\* pointer of an object before freeing that object; and it never touches a
\* block after freeing it.
SweepInOrder(h, events) ==
    \A j \in DOMAIN events :
        LET b == events[j].block
        IN  /\ events[j] = Touch("dealloc", b, "block") =>
                 /\ \E i \in 1..(j - 1) : events[i] = Touch("read", b, "next_object")
                 /\ \A k \in (j + 1)..Len(events) : events[k].block # b
                 /\ h[b].object_type \in ArrayType /\ h[b].capacity > 0 =>
                       \E i \in 1..(j - 1) : events[i] = Touch("dealloc", b, "buffer")
            /\ events[j] = Touch("dealloc", b, "buffer") =>
                 /\ \A k \in (j + 1)..Len(events) : events[k] # events[j]
                 /\ \E k \in (j + 1)..Len(events) :
                       events[k] = Touch("dealloc", b, "block")
C26_SweepFreesInOrder ==
    ~aborted =>
        /\ SweepInOrder(mark(GC).heap, sweep(mark(GC)).events)
        /\ \A a \in Range(AllObjects) :
              ~mark(GC).heap[a].is_marked =>
                  \E j \in DOMAIN sweep(mark(GC)).events :
                      sweep(mark(GC)).events[j] = Touch("dealloc", a, "block")
\* the sweep keeps a marked object and frees, behind it on the list, an
\* array with an element buffer
C26_Witness ==
    /\ ~aborted
    /\ \E a \in Arrays, p \in Addr :
          /\ heap[a].capacity > 0
          /\ heap[p].next_object = a
          /\ Touch("write", p, "next_object") \in Range(sweep(mark(GC)).events)
          /\ Touch("dealloc", a, "buffer") \in Range(sweep(mark(GC)).events)
          /\ Touch("dealloc", a, "block") \in Range(sweep(mark(GC)).events)

\* ---- the front end's claims, continued -----------------------------------
\* the instructions that lowering emits for the index of a for loop: the
\* store of the start value, the load and the compare of loop_header, and
\* the load, add and store of the increment
LoopIndexInstructions(cg) ==
    UNION {{cg.blocks[b].instrs[k] :
               k \in {k \in 1..Len(cg.blocks[b].instrs) :
                        LET instr == cg.blocks[b].instrs[k]
                        IN  \/ instr.op \in {"icmp", "add"}
                            \/ /\ instr.op = "store"
                               /\ instr.name \in {"start_val", "next_i"}
                            \/ /\ instr.op = "load"
                               /\ k < Len(cg.blocks[b].instrs)
                               /\ cg.blocks[b].instrs[k + 1].op \in {"icmp", "add"}}} :
           b \in 1..Len(cg.blocks)}

\* C27: the for-loop index slot is allocated, stored, loaded, incremented and
\* compared at the same integer width as every other int value, the
\* target-native machine word.
C27_LoopIndexWidth ==
    type_checker.result = "ok" /\ code_generator.result = "ok" =>
        LET native == get_native_int_type(code_generator)
        IN  \A instr \in LoopIndexInstructions(code_generator) :
               /\ instr.op = "icmp" => instr.lhs = native /\ instr.rhs = native
               /\ instr.op # "icmp" => instr.bits = native
               /\ instr.name = "start_val" =>
                     \E slot \in Range(code_generator.blocks[1].instrs) :
                         slot.op = "alloca" /\ slot.bits = native

\* the expressions whose type lowering infers in a statement: the value of a
\* let, the arguments of a print
TypedExpressions(stmt) ==
    IF stmt.kind = "Let" THEN {stmt.value}
    ELSE IF stmt.kind = "Expression" /\ stmt.value.kind = "Call"
            /\ stmt.value.name = "print"
    THEN Range(stmt.value.args)
    ELSE {}

\* C28: for every expression of a program the type checker accepts, the type
\* lowering infers for it equals the type the checker inferred, call
\* expressions included; hence a let or a print of a call of a function
\* returning int lowers successfully.
C28_StatementStep ==
    /\ Len(program'.body) = Len(program.body) + 1
    /\ type_checker.result = "ok" /\ type_checker'.result = "ok"
    /\ code_generator.result = "ok"
    => LET stmt == program'.body[Len(program'.body)]
       IN  /\ \A expr \in TypedExpressions(stmt) :
                 CodeGenerator_infer_expression_type(code_generator, expr)
                     = TypeChecker_infer_expression_type(type_checker, expr)
           /\ (\E expr \in TypedExpressions(stmt) : expr.kind = "Call")
                 => code_generator'.result = "ok"
C28_LoweringAgreesOnTypes == [][C28_StatementStep]_vars

\* C29: whenever the body of main reaches its end without an explicit
\* return, lowering emits a return of the integer constant 0 whose width is
\* the target int width, whether or not main declares a return type.
C29_FinishStep ==
    /\ program.name = "main"
    /\ program.phase = "body" /\ program'.phase = "done"
    /\ type_checker'.result = "ok"
    /\ code_generator.result = "ok" /\ code_generator'.result = "ok"
    /\ current_block_has_no_terminator(code_generator)
    => LET instrs == code_generator'.blocks[code_generator.insert_block].instrs
           last == instrs[Len(instrs)]
       IN  /\ last.op = "ret" /\ last.name = "value"
           /\ last.operand = 0
           /\ last.bits = get_native_int_type(code_generator)
C29_MainReturnsZero == [][C29_FinishStep]_vars

\* C30: every lowered for loop terminates: for every start and end value of
\* the machine integer width, an inclusive range up to the maximum integer
\* included, execution reaches the loop's exit block. Stated by its ranking
\* argument, which a finite run refutes: every increment raises the index
\* (it never wraps round to the minimum), and the header leaves for the exit
\* block exactly when the index has passed the end of the range; the index
\* then rises from start until it passes end, in at most end - start + 1
\* rounds.
C30_LoopStep ==
    LET stmt == program.body[1]
        passed == IF stmt.inclusive THEN loop.reg > stmt.end.n
                  ELSE loop.reg >= stmt.end.n
    IN  /\ Running("add") => loop'.reg > loop.reg
        /\ Running("condbr") => (loop'.block = Current.targets[2] <=> passed)
C30_LoopTerminates == [][C30_LoopStep]_vars

====
